---- MODULE Spec2Model ----
(***************************************************************************)
(* Model of media_cleanup.py: one run of MediaCleaner.run against a        *)
(* Sonarr backend (series, episodes, PUT/DELETE), an optional Plex         *)
(* backend and the directory tree below media_root.                        *)
(*                                                                         *)
(* Time is counted in hours.  The wire value of airDateUtc is a record of  *)
(* the fields of the formatted string (day, hour); strptime turns it into  *)
(* a naive timestamp.  datetime.now() is the naive local clock: the UTC    *)
(* instant plus the host's UTC offset.                                     *)
(*                                                                         *)
(* The filesystem holds real directories and regular files only (no        *)
(* symbolic links) and is not changed by other processes during the walk.  *)
(***************************************************************************)
EXTENDS Integers, Sequences, FiniteSets, TLC

VARIABLES
    config,           \* Config dataclass built by _load_config
    plex,             \* self.plex: "None" or "PlexManager"
    utc_offset,       \* host's local UTC offset, hours
    pc,               \* position of the main thread in run()
    fault,            \* the exception that left run() unhandled, "none" otherwise
    threshold_date,   \* run(): threshold_date
    total_processed,  \* run(): total_processed
    upstreamSeries,   \* Sonarr: the series list served by GET /series
    monitored,        \* Sonarr: episode id -> monitored flag
    hasFile,          \* Sonarr: episode id -> episode file present
    series,           \* run(): series, the result of get_daily_series
    idx,              \* run(): position of `serie` in series
    episodes,         \* run(): episodes, the batch of the current series
    tasks,            \* per batch position: where its process_episode call stands
    refreshed,        \* Plex: sections whose update() went through
    files,            \* filesystem: directories that hold a regular file
    exists,           \* filesystem: directories that exist below media_root
    walkPos,          \* cleanup_empty_directories: position in the walk
    inspected,        \* directory -> number of os.listdir calls made on it
    seriesGet,        \* answer to GET /series, "none" if not issued
    episodeGet,       \* series id -> answer to its episode GET, "none" if not issued
    selected,         \* episode ids get_episodes_to_delete has returned
    putResp,          \* episode id -> answer to its PUT, "none" if not issued
    delResp,          \* episode id -> answer to its DELETE, "none" if not issued
    outcome,          \* episode id -> what process_episode reported
    phaseLog,         \* the phases run() has entered, in order
    walkAborted,      \* the except clause of cleanup_empty_directories ran
    faults,           \* failures the environment has injected so far
    data,             \* _load_config: data, the parsed configuration file
    runNo,            \* which invocation of the program this is
    prev              \* what the invocation before this one ended with

vars == << config, plex, utc_offset, pc, fault, threshold_date, total_processed,
           upstreamSeries, monitored, hasFile, series, idx, episodes, tasks,
           refreshed, files, exists, walkPos, inspected, seriesGet,
           episodeGet, selected, putResp, delResp, outcome, phaseLog, walkAborted,
           faults, data, runNo, prev >>

-----------------------------------------------------------------------------
(* Bounds and fixtures *)

MaxSeries == 2
MaxWorkers == 2
MaxFaults == 1
HoursPerDay == 24

SeriesTypes == {"daily", "standard"}
NoKey == "<no key>"

Offsets == {0 - 2, 0, 2}
DaysChoices == {2}
UtcNow == 3 * HoursPerDay

\* Episodes of every series, by slot: the fields of the airDateUtc string and hasFile.
EpisodeSlots ==
    << [day |-> 0, hour |-> 21, hasFile |-> FALSE],
       [day |-> 0, hour |-> 22, hasFile |-> TRUE],
       [day |-> 1, hour |-> 1,  hasFile |-> TRUE] >>

EpsPerSeries == Len(EpisodeSlots)
SeriesIds == 1..MaxSeries
EpisodeIds == 1..(MaxSeries * EpsPerSeries)

\* The series id Sonarr serves at position p of GET /series (descending ids).
SeriesIdAt(p) == MaxSeries + 1 - p
SeriesOf(e) == ((e - 1) \div EpsPerSeries) + 1
SlotOf(e) == ((e - 1) % EpsPerSeries) + 1
EpisodesOf(s) == { e \in EpisodeIds : SeriesOf(e) = s }

\* Plex library sections, by type.
Sections == << "show", "movie", "show" >>

\* Directories below media_root (0): their parent, and the regular files in them.
Root == 0
ParentOf == << 0, 0, 1 >>
Dirs == 1..Len(ParentOf)
FsCases == { {}, {2}, {3} }

-----------------------------------------------------------------------------
(* Pure functions *)

\* datetime.strptime(episode['airDateUtc'], '%Y-%m-%dT%H:%M:%SZ'): a naive timestamp.
Strptime(s) == s.day * HoursPerDay + s.hour

\* datetime.now(): the naive local clock.
Now == UtcNow + utc_offset

\* timedelta(days=n)
Timedelta(days) == days * HoursPerDay

RECURSIVE SetToSeq(_)
SetToSeq(S) ==
    IF S = {} THEN << >>
    ELSE LET m == CHOOSE x \in S : \A y \in S : x <= y
         IN << m >> \o SetToSeq(S \ {m})

\* The body Sonarr serves for GET /api/v3/series.
SeriesBody == upstreamSeries

\* The body Sonarr serves for GET /api/v3/episode?seriesId=s.
EpisodeRecord(e) ==
    [ id |-> e, seriesId |-> SeriesOf(e),
      airDateUtc |-> [day |-> EpisodeSlots[SlotOf(e)].day,
                      hour |-> EpisodeSlots[SlotOf(e)].hour],
      hasAirDate |-> TRUE,
      hasFile |-> hasFile[e],
      monitored |-> monitored[e] ]

EpisodeBody(s) ==
    LET ids == SetToSeq(EpisodesOf(s))
    IN [ i \in 1..Len(ids) |-> EpisodeRecord(ids[i]) ]

\* A body in which the first element lacks a key.
DropSeriesType(body) ==
    [ i \in 1..Len(body) |->
        IF i = 1 THEN [body[i] EXCEPT !.seriesType = NoKey] ELSE body[i] ]

DropAirDate(body) ==
    [ i \in 1..Len(body) |->
        IF i = 1 THEN [body[i] EXCEPT !.hasAirDate = FALSE] ELSE body[i] ]

\* The answers requests.get can give: a 2xx with a body, a non-2xx status
\* (raise_for_status raises HTTPError) or a transport error (ConnectionError).
OkSeriesResponse == [status |-> "ok", body |-> SeriesBody]
OkEpisodeResponse(s) == [status |-> "ok", body |-> EpisodeBody(s)]

SeriesResponses ==
    { OkSeriesResponse,
      [status |-> "non2xx", body |-> << >>],
      [status |-> "transport_error", body |-> << >>] }
    \cup (IF SeriesBody = << >> THEN {}
          ELSE { [status |-> "ok", body |-> DropSeriesType(SeriesBody)] })

EpisodeResponses(s) ==
    { OkEpisodeResponse(s),
      [status |-> "ok", body |-> DropAirDate(EpisodeBody(s))],
      [status |-> "non2xx", body |-> << >>],
      [status |-> "transport_error", body |-> << >>] }

IsDaily(s) == s.seriesType = "daily"

\* Variant: the fetched list is returned unfiltered.
get_all_series(resp) ==
    IF resp.status # "ok"
    THEN [raised |-> "none", value |-> << >>]
    ELSE [raised |-> "none", value |-> resp.body]

\* SonarrManager.get_daily_series, given the answer to its GET.
get_daily_series(resp) ==
    IF resp.status # "ok"
    THEN [raised |-> "none", value |-> << >>]
    ELSE IF \E i \in 1..Len(resp.body) : resp.body[i].seriesType = NoKey
    THEN [raised |-> "KeyError:seriesType", value |-> << >>]
    ELSE [raised |-> "none", value |-> SelectSeq(resp.body, IsDaily)]

\* Variant: an episode aired exactly at the threshold is kept too.
IsEligibleInclusive(episode, threshold) ==
    /\ Strptime(episode.airDateUtc) <= threshold
    /\ episode.hasFile

\* The condition of the list comprehension of get_episodes_to_delete.
IsEligible(episode, threshold) ==
    /\ Strptime(episode.airDateUtc) < threshold
    /\ episode.hasFile

\* Variant: only HTTPError is caught, a transport error leaves the function.
get_episodes_uncaught(resp, threshold) ==
    IF resp.status = "transport_error"
    THEN [raised |-> "ConnectionError", value |-> << >>]
    ELSE IF resp.status # "ok"
    THEN [raised |-> "none", value |-> << >>]
    ELSE LET Keep(ep) == IsEligible(ep, threshold)
         IN [raised |-> "none", value |-> SelectSeq(resp.body, Keep)]

\* SonarrManager.get_episodes_to_delete, given the answer to its GET.
get_episodes_to_delete(resp, threshold) ==
    IF resp.status # "ok"
    THEN [raised |-> "none", value |-> << >>]
    ELSE IF \E i \in 1..Len(resp.body) : ~resp.body[i].hasAirDate
    THEN [raised |-> "KeyError:airDateUtc", value |-> << >>]
    ELSE LET Keep(ep) == IsEligible(ep, threshold)
         IN [raised |-> "none", value |-> SelectSeq(resp.body, Keep)]

\* os.walk(media_root, topdown=False) with the loop over dirs: the order in
\* which os.listdir is called on the directories below d.
SubDirs(d) == SetToSeq({ c \in Dirs : ParentOf[c] = d })

RECURSIVE WalkFrom(_, _)
WalkBelow(d) == WalkFrom(SubDirs(d), 1) \o SubDirs(d)
WalkFrom(subs, i) ==
    IF i > Len(subs) THEN << >>
    ELSE WalkBelow(subs[i]) \o WalkFrom(subs, i + 1)

\* Variant: topdown=True, a directory is listed before the ones below it.
WalkTopDown == SetToSeq(Dirs)

WalkOrder == WalkBelow(Root)

\* os.listdir(dir_path): whether the directory holds any entry.
HasEntries(d) == d \in files \/ \E c \in Dirs : ParentOf[c] = d /\ c \in exists

-----------------------------------------------------------------------------
(* State after MediaCleaner.__init__ *)

\* An optional key of the file: no value or one.
Opt(S) == {{}} \cup { {v} : v \in S }

\* The configuration files: the cleanup section with its keys present or not,
\* the performance section present or not, the sonarr and plex blocks (with
\* their api_key, host, url, token) present or not.
ConfigFiles ==
    [ cleanup : [ days_threshold : Opt(DaysChoices),
                  media_root : BOOLEAN,
                  delete_empty_dirs : Opt(BOOLEAN),
                  dry_run : Opt(BOOLEAN) ],
      performance : Opt([ parallel_processing : Opt(BOOLEAN),
                          max_workers : Opt(0..MaxWorkers) ]),
      sonarr : BOOLEAN,
      plex : BOOLEAN ]

\* dict.get(key, default)
Get(opt, default) == IF opt = {} THEN default ELSE CHOOSE v \in opt : TRUE

\* data['performance'], once the section is known to be there.
Performance(d) == CHOOSE section \in d.performance : TRUE

\* max_workers=data['performance'].get('max_workers', 4)
DefaultMaxWorkers == 4

\* Variant: the configuration is returned without the backend test.
HasBackendAlways(sonarr_enabled, plex_enabled) == TRUE

\* if not (config.sonarr_enabled or config.plex_enabled): raise ValueError
HasBackend(sonarr_enabled, plex_enabled) == sonarr_enabled \/ plex_enabled

\* The exception _load_config raises on d, in the order the body evaluates;
\* "none" when it returns.
LoadError(d) ==
    IF d.cleanup.days_threshold = {} THEN "KeyError:days_threshold"
    ELSE IF ~d.cleanup.media_root THEN "KeyError:media_root"
    ELSE IF d.performance = {} THEN "KeyError:performance"
    ELSE IF ~HasBackend(d.sonarr, d.plex) THEN "ValueError:no backend"
    ELSE "none"

\* The Config _load_config returns for d.
load_config(d) ==
    [ days_threshold |-> CHOOSE v \in d.cleanup.days_threshold : TRUE,
      delete_empty_dirs |-> Get(d.cleanup.delete_empty_dirs, TRUE),
      parallel_processing |-> Get(Performance(d).parallel_processing, TRUE),
      max_workers |-> Get(Performance(d).max_workers, DefaultMaxWorkers),
      dry_run |-> Get(d.cleanup.dry_run, FALSE),
      sonarr_enabled |-> d.sonarr,
      plex_enabled |-> d.plex ]

\* A file that loads to c: every key written out.
DataOf(c) ==
    [ cleanup |-> [ days_threshold |-> {c.days_threshold},
                    media_root |-> TRUE,
                    delete_empty_dirs |-> {c.delete_empty_dirs},
                    dry_run |-> {c.dry_run} ],
      performance |-> {[ parallel_processing |-> {c.parallel_processing},
                         max_workers |-> {c.max_workers} ]},
      sonarr |-> c.sonarr_enabled,
      plex |-> c.plex_enabled ]

\* No Config object yet: _load_config has not returned.
NoConfig ==
    [ days_threshold |-> 0, delete_empty_dirs |-> FALSE,
      parallel_processing |-> FALSE, max_workers |-> 0, dry_run |-> FALSE,
      sonarr_enabled |-> FALSE, plex_enabled |-> FALSE ]

\* No invocation came before this one.
NoPrev ==
    [ seriesGet |-> "none",
      episodeGet |-> [ s \in SeriesIds |-> "none" ],
      selected |-> {},
      outcome |-> [ e \in EpisodeIds |-> "none" ],
      total_processed |-> 0 ]

\* Sequences over S of length at most n.
SeqsUpTo(S, n) == UNION { [1..k -> S] : k \in 0..n }

Configs ==
    { c \in [ days_threshold : DaysChoices,
              delete_empty_dirs : BOOLEAN,
              parallel_processing : BOOLEAN,
              max_workers : 0..MaxWorkers,
              dry_run : BOOLEAN,
              sonarr_enabled : BOOLEAN,
              plex_enabled : BOOLEAN ] :
        /\ c.sonarr_enabled \/ c.plex_enabled
        \* max_workers is read only when parallel_processing is set
        /\ ~c.parallel_processing => c.max_workers = MaxWorkers }

\* self.plex, from plex_enabled and PLEX_AVAILABLE.
PlexInstance(plex_enabled, plex_available) ==
    IF plex_enabled /\ plex_available THEN "PlexManager" ELSE "None"

Init ==
    /\ config \in Configs
    /\ \E plex_available \in BOOLEAN :
          plex = PlexInstance(config.plex_enabled, plex_available)
    /\ utc_offset \in Offsets
    /\ pc = "start"
    /\ fault = "none"
    /\ threshold_date = 0
    /\ total_processed = 0
    /\ \E types \in SeqsUpTo(SeriesTypes, MaxSeries) :
          upstreamSeries =
              [ p \in 1..Len(types) |->
                  [id |-> SeriesIdAt(p), seriesType |-> types[p]] ]
    /\ monitored = [ e \in EpisodeIds |-> TRUE ]
    /\ hasFile = [ e \in EpisodeIds |-> EpisodeSlots[SlotOf(e)].hasFile ]
    /\ series = << >>
    /\ idx = 0
    /\ episodes = << >>
    /\ tasks = << >>
    /\ refreshed = {}
    /\ files \in FsCases
    /\ exists = Dirs
    /\ walkPos = 0
    /\ inspected = [ d \in Dirs |-> 0 ]
    /\ seriesGet = "none"
    /\ episodeGet = [ s \in SeriesIds |-> "none" ]
    /\ selected = {}
    /\ putResp = [ e \in EpisodeIds |-> "none" ]
    /\ delResp = [ e \in EpisodeIds |-> "none" ]
    /\ outcome = [ e \in EpisodeIds |-> "none" ]
    /\ phaseLog = << >>
    /\ walkAborted = FALSE
    /\ faults = 0
    /\ data = DataOf(config)
    /\ runNo = 1
    /\ prev = NoPrev

sonarrVars == << upstreamSeries, monitored, hasFile >>
fsVars == << files, exists, walkPos, inspected, walkAborted >>
batchVars == << episodes, tasks >>
callVars == << putResp, delResp, outcome >>
envVars == << config, plex, utc_offset, data, runNo, prev >>
getVars == << seriesGet, episodeGet, selected >>

\* The environment answers; a failure counts against MaxFaults.
Inject(isFault) ==
    /\ isFault => faults < MaxFaults
    /\ faults' = IF isFault THEN faults + 1 ELSE faults

Event(ev, sid) == [ev |-> ev, sid |-> sid]

\* An exception leaves run(): the process ends with a traceback.
Crash(exc) ==
    /\ pc' = "crashed"
    /\ fault' = exc

-----------------------------------------------------------------------------
(* MediaCleaner.run, up to the batch of one series *)

\* threshold_date = datetime.now() - timedelta(days=...); total_processed = 0
RunStart ==
    /\ pc = "start"
    /\ threshold_date' = Now - Timedelta(config.days_threshold)
    /\ total_processed' = 0
    /\ pc' = IF config.sonarr_enabled THEN "fetch_series" ELSE "refresh"
    /\ UNCHANGED << faults, envVars, fault, sonarrVars, series, idx, batchVars, refreshed,
                    fsVars, getVars, callVars, phaseLog >>

\* series = self.sonarr.get_daily_series()
FetchSeries ==
    /\ pc = "fetch_series"
    /\ \E resp \in SeriesResponses :
          LET r == get_daily_series(resp)
          IN /\ seriesGet' = resp.status
             /\ Inject(resp # OkSeriesResponse)
             /\ IF r.raised # "none"
                THEN /\ Crash(r.raised)
                     /\ UNCHANGED << series, idx >>
                ELSE /\ series' = r.value
                     /\ idx' = 1
                     /\ pc' = "loop"
                     /\ UNCHANGED fault
    /\ phaseLog' = Append(phaseLog, Event("fetch_series", 0))
    /\ UNCHANGED << envVars, threshold_date, total_processed, sonarrVars, batchVars,
                    refreshed, fsVars, episodeGet, selected, callVars >>

\* Variant: the loop takes the series last to first.
LoopReversed(s) == [ i \in 1..Len(s) |-> s[Len(s) + 1 - i] ]

\* The order in which the for loop takes the elements of series.
LoopOrder(s) == s

\* for serie in series: episodes = get_episodes_to_delete(...); if not episodes: continue
FetchEpisodes ==
    /\ pc = "loop"
    /\ idx <= Len(series)
    /\ LET serie == LoopOrder(series)[idx]
       IN /\ \E resp \in EpisodeResponses(serie.id) :
                LET r == get_episodes_to_delete(resp, threshold_date)
                IN /\ episodeGet' = [episodeGet EXCEPT ![serie.id] = resp.status]
                   /\ selected' = selected \cup { r.value[i].id : i \in 1..Len(r.value) }
                   /\ Inject(resp # OkEpisodeResponse(serie.id))
                   /\ IF r.raised # "none"
                      THEN /\ Crash(r.raised)
                           /\ UNCHANGED << idx, batchVars >>
                      ELSE /\ episodes' = r.value
                           /\ UNCHANGED fault
                           /\ IF r.value = << >>
                              THEN /\ idx' = idx + 1
                                   /\ pc' = "loop"
                                   /\ tasks' = << >>
                              ELSE /\ idx' = idx
                                   /\ pc' = "process"
                                   /\ tasks' = [ i \in 1..Len(r.value) |-> "queued" ]
          /\ phaseLog' = Append(phaseLog, Event("episodes", serie.id))
    /\ UNCHANGED << envVars, threshold_date, total_processed, sonarrVars, series,
                    refreshed, fsVars, seriesGet, callVars >>

\* The for loop over series is exhausted.
LoopExit ==
    /\ pc = "loop"
    /\ idx > Len(series)
    /\ pc' = "refresh"
    /\ UNCHANGED << faults, envVars, fault, threshold_date, total_processed, sonarrVars,
                    series, idx, batchVars, refreshed, fsVars, getVars, callVars, phaseLog >>

-----------------------------------------------------------------------------
(* SonarrManager.process_episode, one call per batch position *)

\* The answers requests.put and requests.delete can give.  Neither call is followed
\* by raise_for_status: only a transport error raises.
CallAnswers == {"ok", "non2xx", "raise"}
\* Variant: an exception of the call is swallowed, the function goes on.
RaisesNever(answer) == FALSE

Raises(answer) == answer = "raise"

\* Variant: the backend calls are made whatever dry_run says.
MutatesAlways(dry_run) == TRUE

\* process_episode: if not dry_run
MutatesBackend(dry_run) == ~dry_run

InFlight == { i \in DOMAIN tasks : tasks[i] \in {"running", "put_done"} }
Returned == { i \in DOMAIN tasks : tasks[i] \in {"True", "False"} }

\* Calls that may run at once: the pool's threads, or the main thread alone.
\* Variant: the pool starts a thread for every submitted call.
WorkersUnbounded == IF config.parallel_processing THEN Len(tasks) ELSE 1

Workers == IF config.parallel_processing THEN config.max_workers ELSE 1

\* What a returned call adds to total_processed at once (sequential loop only).
SeqIncrement(value) ==
    IF ~config.parallel_processing /\ value = "True" THEN 1 ELSE 0

\* process_episode returns value for batch position i.
Return(i, value) ==
    /\ tasks' = [tasks EXCEPT ![i] = value]
    /\ outcome' = [outcome EXCEPT ![episodes[i].id] = value]
    /\ total_processed' = total_processed + SeqIncrement(value)

\* ThreadPoolExecutor(max_workers=0) raises ValueError.
PoolError ==
    /\ pc = "process"
    /\ config.parallel_processing
    /\ config.max_workers <= 0
    /\ Crash("ValueError")
    /\ UNCHANGED << faults, envVars, threshold_date, total_processed, sonarrVars, series, idx,
                    batchVars, refreshed, fsVars, getVars,
                    callVars, phaseLog >>

\* A worker (or the sequential loop) enters process_episode for position i.
StartTask(i) ==
    /\ pc = "process"
    /\ i \in DOMAIN tasks
    /\ tasks[i] = "queued"
    /\ \A j \in 1..(i - 1) : tasks[j] # "queued"
    /\ Cardinality(InFlight) < Workers
    /\ tasks' = [tasks EXCEPT ![i] = "running"]
    /\ UNCHANGED << faults, envVars, pc, fault, threshold_date, total_processed, sonarrVars,
                    series, idx, episodes, refreshed, fsVars, getVars, callVars, phaseLog >>

\* Variant: a dry run reports the episode as failed.
DryResultFalse == "False"

\* return True, reached with dry_run set
DryResult == "True"

\* dry_run: only the log line, return True.
DryReturn(i) ==
    /\ pc = "process"
    /\ i \in DOMAIN tasks
    /\ tasks[i] = "running"
    /\ ~MutatesBackend(config.dry_run)
    /\ Return(i, DryResult)
    /\ UNCHANGED << faults, envVars, pc, fault, threshold_date, sonarrVars, series, idx,
                    episodes, refreshed, fsVars, getVars,
                    putResp, delResp, phaseLog >>

\* episode['monitored'] = False; requests.put(.../episode/{id}, json=episode)
PutStep(i) ==
    /\ pc = "process"
    /\ i \in DOMAIN tasks
    /\ tasks[i] = "running"
    /\ MutatesBackend(config.dry_run)
    /\ LET e == episodes[i].id
       IN \E answer \in CallAnswers :
             /\ episodes' = [episodes EXCEPT ![i].monitored = FALSE]
             /\ Inject(answer # "ok")
             /\ putResp' = [putResp EXCEPT ![e] = answer]
             /\ monitored' = IF answer = "ok"
                             THEN [monitored EXCEPT ![e] = FALSE]
                             ELSE monitored
             /\ IF Raises(answer)
                THEN Return(i, "False")
                ELSE /\ tasks' = [tasks EXCEPT ![i] = "put_done"]
                     /\ UNCHANGED << outcome, total_processed >>
    /\ UNCHANGED << envVars, pc, fault, threshold_date, upstreamSeries, hasFile,
                    series, idx, refreshed, fsVars, getVars,
                    delResp, phaseLog >>

\* requests.delete(.../episodefile/{episodeFileId}); log; return True
DeleteStep(i) ==
    /\ pc = "process"
    /\ i \in DOMAIN tasks
    /\ tasks[i] = "put_done"
    /\ LET e == episodes[i].id
       IN \E answer \in CallAnswers :
             /\ delResp' = [delResp EXCEPT ![e] = answer]
             /\ Inject(answer # "ok")
             /\ hasFile' = IF answer = "ok"
                           THEN [hasFile EXCEPT ![e] = FALSE]
                           ELSE hasFile
             /\ Return(i, IF Raises(answer) THEN "False" ELSE "True")
    /\ UNCHANGED << envVars, pc, fault, threshold_date, upstreamSeries, monitored,
                    series, idx, episodes, refreshed, fsVars, getVars, putResp, phaseLog >>

\* Variant: every result is counted.
CountAll(ts) == Cardinality(DOMAIN ts)

\* sum(1 for r in results if r)
CountTrue(ts) == Cardinality({ i \in DOMAIN ts : ts[i] = "True" })

\* Variant: the results are summed after the sequential loop as well.
BatchIncrementBoth(ts) == CountTrue(ts)

\* What the finished batch adds to total_processed (executor.map results only).
BatchIncrement(ts) == IF config.parallel_processing THEN CountTrue(ts) ELSE 0

\* Every call of the batch has returned: back to the head of the series loop.
BatchDone ==
    /\ pc = "process"
    /\ Returned = DOMAIN tasks
    /\ total_processed' = total_processed + BatchIncrement(tasks)
    /\ idx' = idx + 1
    /\ pc' = "loop"
    /\ UNCHANGED << faults, envVars, fault, threshold_date, sonarrVars, series, batchVars,
                    refreshed, fsVars, getVars, callVars,
                    phaseLog >>

-----------------------------------------------------------------------------
(* Plex refresh *)

\* How far the loop over sections() gets: all sections, or up to an exception
\* raised by sections() itself (0) or by the update() of a show section.
RefreshStops ==
    { k \in 0..Len(Sections) :
        k = 0 \/ k = Len(Sections) \/ Sections[k + 1] = "show" }

\* PlexManager.refresh_libraries(dry_run): the sections whose update() went
\* through when the loop gets through k sections.
refresh_libraries(dry_run, k) ==
    IF dry_run THEN {}
    ELSE { i \in 1..k : Sections[i] = "show" }

\* if self.config.plex_enabled: self.plex.refresh_libraries(self.config.dry_run)
RefreshPlex ==
    /\ pc = "refresh"
    /\ config.plex_enabled
    /\ plex # "None"
    /\ \E k \in RefreshStops :
          /\ config.dry_run => k = Len(Sections)
          /\ refreshed' = refresh_libraries(config.dry_run, k)
          /\ Inject(k < Len(Sections))
    /\ phaseLog' = Append(phaseLog, Event("refresh", 0))
    /\ pc' = "prune"
    /\ UNCHANGED << envVars, fault, threshold_date, total_processed, sonarrVars,
                    series, idx, batchVars, fsVars, getVars,
                    callVars >>

\* self.plex is None: self.plex.refresh_libraries raises AttributeError.
RefreshNoPlex ==
    /\ pc = "refresh"
    /\ config.plex_enabled
    /\ plex = "None"
    /\ Crash("AttributeError")
    /\ UNCHANGED << faults, envVars, threshold_date, total_processed, sonarrVars, series, idx,
                    batchVars, refreshed, fsVars, getVars,
                    callVars, phaseLog >>

RefreshSkip ==
    /\ pc = "refresh"
    /\ ~config.plex_enabled
    /\ pc' = "prune"
    /\ UNCHANGED << faults, envVars, fault, threshold_date, total_processed, sonarrVars,
                    series, idx, batchVars, refreshed, fsVars, getVars, callVars, phaseLog >>

-----------------------------------------------------------------------------
(* Directory pruning *)

\* cleanup_empty_directories: the early return of its first line.
PruneReturnsEarly == ~config.delete_empty_dirs \/ config.dry_run

\* if self.config.delete_empty_dirs: self.cleanup_empty_directories()
PruneCall ==
    /\ pc = "prune"
    /\ config.delete_empty_dirs
    /\ phaseLog' = Append(phaseLog, Event("prune", 0))
    /\ IF PruneReturnsEarly
       THEN pc' = "summary" /\ UNCHANGED walkPos
       ELSE pc' = "walk" /\ walkPos' = 1
    /\ UNCHANGED << faults, envVars, fault, threshold_date, total_processed, sonarrVars,
                    series, idx, batchVars, refreshed, files, exists, inspected,
                    walkAborted, getVars, callVars >>

PruneSkip ==
    /\ pc = "prune"
    /\ ~config.delete_empty_dirs
    /\ pc' = "summary"
    /\ UNCHANGED << faults, envVars, fault, threshold_date, total_processed, sonarrVars,
                    series, idx, batchVars, refreshed, fsVars, getVars, callVars, phaseLog >>

\* The outcomes of the loop body for one directory.
FsAnswers == {"ok", "listdir_error", "rmdir_error"}

\* Whether the walk goes on to the next directory after an error on one.
ContinuesAfterError == FALSE

\* Variant: the directory is removed whatever it holds.
RmdirAlways(d) == {d}

\* The directory os.rmdir removes when listdir found d without entries.
RmdirTarget(d) == IF HasEntries(d) THEN {} ELSE {d}

\* dir_path = join(root, dir_name); if not os.listdir(dir_path): os.rmdir(dir_path)
InspectDir ==
    /\ pc = "walk"
    /\ walkPos <= Len(WalkOrder)
    /\ LET d == WalkOrder[walkPos]
       IN /\ inspected' = [inspected EXCEPT ![d] = @ + 1]
          /\ \E answer \in FsAnswers :
                /\ answer = "rmdir_error" => RmdirTarget(d) # {}
                /\ Inject(answer # "ok")
                /\ exists' = IF answer = "ok" THEN exists \ RmdirTarget(d) ELSE exists
                /\ IF answer = "ok" \/ ContinuesAfterError
                   THEN /\ walkPos' = walkPos + 1
                        /\ pc' = "walk"
                        /\ walkAborted' = (walkAborted \/ answer # "ok")
                   ELSE /\ walkPos' = walkPos
                        /\ pc' = "summary"
                        /\ walkAborted' = TRUE
    /\ UNCHANGED << envVars, fault, threshold_date, total_processed, sonarrVars,
                    series, idx, batchVars, refreshed, files, getVars, callVars, phaseLog >>

\* os.walk is exhausted.
WalkEnd ==
    /\ pc = "walk"
    /\ walkPos > Len(WalkOrder)
    /\ pc' = "summary"
    /\ UNCHANGED << faults, envVars, fault, threshold_date, total_processed, sonarrVars,
                    series, idx, batchVars, refreshed, fsVars, getVars, callVars, phaseLog >>

\* logger.info("Cleanup complete. Processed ...")
Summary ==
    /\ pc = "summary"
    /\ phaseLog' = Append(phaseLog, Event("summary", 0))
    /\ pc' = "done"
    /\ UNCHANGED << faults, envVars, fault, threshold_date, total_processed, sonarrVars,
                    series, idx, batchVars, refreshed, fsVars, getVars, callVars >>

-----------------------------------------------------------------------------

Next ==
    \/ RunStart
    \/ FetchSeries
    \/ FetchEpisodes
    \/ LoopExit
    \/ PoolError
    \/ \E i \in 1..EpsPerSeries : StartTask(i)
    \/ \E i \in 1..EpsPerSeries : DryReturn(i)
    \/ \E i \in 1..EpsPerSeries : PutStep(i)
    \/ \E i \in 1..EpsPerSeries : DeleteStep(i)
    \/ BatchDone
    \/ RefreshPlex
    \/ RefreshNoPlex
    \/ RefreshSkip
    \/ PruneCall
    \/ PruneSkip
    \/ InspectDir
    \/ WalkEnd
    \/ Summary

Spec == Init /\ [][Next]_vars

-----------------------------------------------------------------------------
(* MediaCleaner.__init__ and _load_config, from the configuration file on *)

\* The process has been started on a configuration file; nothing is built yet.
\* One daily series upstream, an empty directory tree, host clock on UTC.
InitLoad ==
    /\ data \in ConfigFiles
    /\ config = NoConfig
    /\ plex = "None"
    /\ utc_offset = 0
    /\ pc = "load"
    /\ fault = "none"
    /\ threshold_date = 0
    /\ total_processed = 0
    /\ upstreamSeries = << [id |-> SeriesIdAt(1), seriesType |-> "daily"] >>
    /\ monitored = [ e \in EpisodeIds |-> TRUE ]
    /\ hasFile = [ e \in EpisodeIds |-> EpisodeSlots[SlotOf(e)].hasFile ]
    /\ series = << >>
    /\ idx = 0
    /\ episodes = << >>
    /\ tasks = << >>
    /\ refreshed = {}
    /\ files = {}
    /\ exists = Dirs
    /\ walkPos = 0
    /\ inspected = [ d \in Dirs |-> 0 ]
    /\ seriesGet = "none"
    /\ episodeGet = [ s \in SeriesIds |-> "none" ]
    /\ selected = {}
    /\ putResp = [ e \in EpisodeIds |-> "none" ]
    /\ delResp = [ e \in EpisodeIds |-> "none" ]
    /\ outcome = [ e \in EpisodeIds |-> "none" ]
    /\ phaseLog = << >>
    /\ walkAborted = FALSE
    /\ faults = 0
    /\ runNo = 1
    /\ prev = NoPrev

\* self.config = self._load_config(config_path); the managers are built.  Any
\* exception of _load_config ends the process through sys.exit.
LoadConfig ==
    /\ pc = "load"
    /\ IF LoadError(data) = "none"
       THEN /\ config' = load_config(data)
            /\ \E plex_available \in BOOLEAN :
                  plex' = PlexInstance(config'.plex_enabled, plex_available)
            /\ pc' = "start"
            /\ fault' = fault
       ELSE /\ pc' = "exited"
            /\ fault' = LoadError(data)
            /\ UNCHANGED << config, plex >>
    /\ UNCHANGED << faults, utc_offset, data, runNo, prev, threshold_date, total_processed,
                    sonarrVars, series, idx, batchVars, refreshed, fsVars, getVars,
                    callVars, phaseLog >>

NextLoad ==
    \/ LoadConfig
    \/ Next

SpecLoad == InitLoad /\ [][NextLoad]_vars

-----------------------------------------------------------------------------
(* The program invoked a second time (dry runs) *)

\* What an invocation leaves to compare the next one with.
EndOfRun ==
    [ seriesGet |-> seriesGet,
      episodeGet |-> episodeGet,
      selected |-> selected,
      outcome |-> outcome,
      total_processed |-> total_processed ]

\* The finished dry run is followed by a second invocation on the same
\* configuration: a new process, whose run() starts from nothing; Sonarr, Plex
\* and the filesystem are as the first invocation left them.
RunAgain ==
    /\ pc = "done"
    /\ config.dry_run
    /\ runNo = 1
    /\ runNo' = 2
    /\ prev' = EndOfRun
    /\ pc' = "start"
    /\ threshold_date' = 0
    /\ total_processed' = 0
    /\ series' = << >>
    /\ idx' = 0
    /\ episodes' = << >>
    /\ tasks' = << >>
    /\ seriesGet' = "none"
    /\ episodeGet' = [ s \in SeriesIds |-> "none" ]
    /\ selected' = {}
    /\ outcome' = [ e \in EpisodeIds |-> "none" ]
    /\ phaseLog' = << >>
    /\ faults' = 0
    /\ UNCHANGED << config, plex, utc_offset, data, fault, sonarrVars, refreshed, fsVars,
                    putResp, delResp >>

NextTwice ==
    \/ RunAgain
    \/ Next

SpecTwice == Init /\ [][NextTwice]_vars

-----------------------------------------------------------------------------
(* Properties *)

InitialMonitored == [ e \in EpisodeIds |-> TRUE ]
InitialHasFile == [ e \in EpisodeIds |-> EpisodeSlots[SlotOf(e)].hasFile ]
AirTime(e) == EpisodeSlots[SlotOf(e)].day * HoursPerDay + EpisodeSlots[SlotOf(e)].hour
InBatch(batch, e) == \E i \in DOMAIN batch : batch[i].id = e
UpstreamType(sid) ==
    IF \E p \in DOMAIN upstreamSeries : upstreamSeries[p].id = sid
    THEN LET p == CHOOSE q \in DOMAIN upstreamSeries : upstreamSeries[q].id = sid
         IN upstreamSeries[p].seriesType
    ELSE "absent"

\* C1: with dry_run set no mutating action is ever issued: no PUT, no DELETE,
\* no section refresh, no directory removal; the Sonarr state and the directory
\* tree stay as they were at the start of the run.
C1_DryRunMutatesNothing ==
    config.dry_run =>
        /\ \A e \in EpisodeIds : putResp[e] = "none" /\ delResp[e] = "none"
        /\ refreshed = {}
        /\ exists = Dirs
        /\ \A d \in Dirs : inspected[d] = 0
        /\ monitored = InitialMonitored
        /\ hasFile = InitialHasFile

\* A finished dry run that processed episodes, had a Plex instance to refresh
\* and was configured to prune a tree of empty directories.
C1_Witness ==
    /\ pc = "done"
    /\ config.dry_run
    /\ total_processed >= 2
    /\ config.plex_enabled /\ plex = "PlexManager"
    /\ config.delete_empty_dirs
    /\ files = {}
    /\ Len(phaseLog) >= 5

\* C2: after a successful episode GET, an episode of the series is in the result
\* of get_episodes_to_delete iff its file is present and its air time is strictly
\* before the threshold.
C2_EligibleIffFileAndOld ==
    [][ ( /\ pc = "loop"
          /\ idx <= Len(series)
          /\ pc' \in {"loop", "process"}
          /\ episodeGet'[series[idx].id] = "ok" )
        => \A e \in EpisodesOf(series[idx].id) :
              InBatch(episodes', e) <=> (hasFile[e] /\ AirTime(e) < threshold_date)
      ]_vars

\* A fetched batch that holds an old episode with a file, and leaves out both an
\* episode with a file aired at or after the threshold and an older one without file.
C2_Witness ==
    /\ pc = "process"
    /\ \A i \in DOMAIN tasks : tasks[i] = "queued"
    /\ \E e1, e2, e3 \in EpisodesOf(series[idx].id) :
          /\ InBatch(episodes, e1)
          /\ ~InBatch(episodes, e2) /\ hasFile[e2] /\ AirTime(e2) >= threshold_date
          /\ ~InBatch(episodes, e3) /\ ~hasFile[e3] /\ AirTime(e3) < threshold_date

\* C3: after a successful series GET, series holds exactly the fetched series of
\* type "daily", in upstream order; and no episode of a series that is not daily
\* is ever fetched, selected, unmonitored or deleted.
C3_OnlyDailySeries ==
    /\ ( seriesGet = "ok" /\ pc # "fetch_series" /\ fault # "KeyError:seriesType" )
         => LET Daily(x) == x.seriesType = "daily"
            IN series = SelectSeq(upstreamSeries, Daily)
    /\ seriesGet \in {"none", "non2xx", "transport_error"} => series = << >>
    /\ \A sid \in SeriesIds :
          episodeGet[sid] # "none" => UpstreamType(sid) = "daily"
    /\ \A e \in EpisodeIds :
          ( \/ e \in selected
            \/ putResp[e] # "none"
            \/ delResp[e] # "none"
            \/ outcome[e] # "none"
            \/ monitored[e] # InitialMonitored[e]
            \/ hasFile[e] # InitialHasFile[e] )
          => UpstreamType(SeriesOf(e)) = "daily"

\* A finished run over a daily and a non-daily series, in which episodes of the
\* daily one were deleted.
C3_Witness ==
    /\ pc = "done"
    /\ Len(upstreamSeries) = 2
    /\ Len(series) = 1
    /\ upstreamSeries[1].seriesType = "standard"
    /\ \E e \in EpisodeIds : delResp[e] = "ok"

\* C4: once a batch is complete every selected episode has reported its own
\* outcome, and total_processed is the number of episodes, over all series, whose
\* processing succeeded.
C4_FailureIsolation ==
    pc \in {"loop", "refresh", "prune", "walk", "summary", "done"} =>
        /\ \A e \in selected : outcome[e] # "none"
        /\ total_processed = Cardinality({ e \in EpisodeIds : outcome[e] = "True" })

\* A finished parallel run: one episode of a batch failed, another of the same
\* batch and one of a later series succeeded.
C4_Witness ==
    /\ pc = "done"
    /\ config.parallel_processing
    /\ \E e1, e2, e3 \in EpisodeIds :
          /\ SeriesOf(e1) = SeriesOf(e2) /\ SeriesOf(e3) # SeriesOf(e1)
          /\ outcome[e1] = "False" /\ outcome[e2] = "True" /\ outcome[e3] = "True"
          /\ series[Len(series)].id = SeriesOf(e3)
    /\ total_processed = 3

\* C5: a non-2xx answer is a failure at every call site: to a GET it gives an
\* empty result, to the PUT or the DELETE of an episode it makes process_episode
\* report False.
C5_Non2xxIsFailure ==
    /\ seriesGet = "non2xx" => series = << >>
    /\ \A sid \in SeriesIds :
          episodeGet[sid] = "non2xx" => \A e \in EpisodesOf(sid) : e \notin selected
    /\ \A e \in EpisodeIds :
          (putResp[e] = "non2xx" \/ delResp[e] = "non2xx") => outcome[e] # "True"

\* C6: no error raised while fetching series or while fetching or evaluating
\* episodes leaves its component: run() never ends with such an exception unhandled.
C6_ErrorsStayInComponent ==
    ~( pc = "crashed" /\ fault \in {"KeyError:seriesType", "KeyError:airDateUtc"} )

\* C7: a transport error on the series GET leaves series empty and the loop
\* exhausted (the run goes on to the refresh phase); a transport error on the
\* episode GET of one series selects nothing for it, issues no call for it and
\* moves on to the next series.
C7_TransportErrorIsEmptyResult ==
    [][ /\ ( pc = "fetch_series" /\ seriesGet' = "transport_error" )
           => ( series' = << >> /\ pc' = "loop" /\ idx' > Len(series') )
        /\ ( /\ pc = "loop"
             /\ idx <= Len(series)
             /\ episodeGet'[series[idx].id] = "transport_error" )
           => /\ episodes' = << >>
              /\ selected' = selected
              /\ pc' = "loop"
              /\ idx' = idx + 1
              /\ UNCHANGED << series, putResp, delResp, outcome, total_processed >>
      ]_vars

\* A finished run in which the episode GET of the first series met a transport
\* error and the episodes of the next series were still deleted.
C7_Witness ==
    /\ pc = "done"
    /\ Len(series) = 2
    /\ episodeGet[series[1].id] = "transport_error"
    /\ episodeGet[series[2].id] = "ok"
    /\ \A e \in EpisodesOf(series[1].id) : putResp[e] = "none"
    /\ \E e \in EpisodesOf(series[2].id) : delResp[e] = "ok" /\ outcome[e] = "True"

\* C8: a directory is removed only if it holds no entry when it is inspected,
\* no directory is inspected more than once, and with dry_run set or
\* delete_empty_dirs unset nothing is inspected or removed.
C8_PruneOnlyEmptyOnce ==
    [][ /\ \A d \in exists \ exists' :
              ~(d \in files \/ \E c \in exists : ParentOf[c] = d)
        /\ \A d \in Dirs : inspected'[d] <= 1
        /\ (config.dry_run \/ ~config.delete_empty_dirs)
              => ( exists' = Dirs /\ \A d \in Dirs : inspected'[d] = 0 )
      ]_vars

\* A finished walk without error that removed some directories and kept one that
\* holds a file.
C8_Witness ==
    /\ pc = "done"
    /\ ~walkAborted
    /\ exists # Dirs
    /\ \E d \in exists : d \in files
    /\ \A d \in Dirs : inspected[d] = 1

\* C9: an error on one directory does not end the walk: when pruning has run,
\* every directory has been inspected and every directory that was left without
\* entries has been removed, but for those an error was met on.
C9_WalkSurvivesErrors ==
    ( pc \in {"summary", "done"} /\ config.delete_empty_dirs /\ ~config.dry_run )
        => /\ \A d \in Dirs : inspected[d] >= 1
           /\ Cardinality({ d \in exists : ~HasEntries(d) }) <= faults

PhaseRank(e) ==
    CASE e.ev = "fetch_series" -> 1
      [] e.ev = "episodes" -> 2
      [] e.ev = "refresh" -> 3
      [] e.ev = "prune" -> 4
      [] e.ev = "summary" -> 5

Logged(ev) == \E i \in DOMAIN phaseLog : phaseLog[i].ev = ev

\* C10: the phases of run() occur in a fixed order and none is entered twice:
\* the series are taken in the order Sonarr returned them; the refresh happens at
\* most once, after the last series and only with Plex enabled; the pruning at
\* most once, after the refresh and only with delete_empty_dirs; the summary last.
C10_PhaseOrder ==
    LET IsEpisodes(e) == e.ev = "episodes"
        Daily(x) == x.seriesType = "daily"
        eps == SelectSeq(phaseLog, IsEpisodes)
        daily == SelectSeq(upstreamSeries, Daily)
        seriesDone ==
            config.sonarr_enabled =>
                /\ seriesGet # "none"
                /\ Len(eps) = Len(series)
                /\ \A i \in DOMAIN tasks : tasks[i] \in {"True", "False"}
    IN /\ \A i, j \in DOMAIN phaseLog :
             i < j => /\ PhaseRank(phaseLog[i]) <= PhaseRank(phaseLog[j])
                      /\ phaseLog[i] # phaseLog[j]
       /\ Len(eps) <= Len(daily)
       /\ \A k \in 1..Len(eps) : eps[k].sid = daily[k].id
       /\ Logged("refresh") => ( config.plex_enabled /\ seriesDone )
       /\ Logged("prune") =>
             /\ config.delete_empty_dirs
             /\ seriesDone
             /\ config.plex_enabled => Logged("refresh")
       /\ (refreshed # {}) => Logged("refresh")
       /\ (exists # Dirs \/ \E d \in Dirs : inspected[d] > 0) => Logged("prune")
       /\ Logged("summary") <=> pc = "done"
       /\ pc = "done" => phaseLog[Len(phaseLog)].ev = "summary"

\* A finished run that went through two series, the refresh and the pruning.
C10_Witness ==
    /\ pc = "done"
    /\ Len(phaseLog) = 6
    /\ \E e1, e2 \in EpisodeIds :
          SeriesOf(e1) # SeriesOf(e2) /\ outcome[e1] = "True" /\ outcome[e2] = "True"
    /\ refreshed # {}
    /\ exists # Dirs

\* C11: with parallel processing at most max_workers process_episode calls are
\* in flight, all for episodes of the series the loop stands at; a call is in
\* flight or waiting only while that series' batch is being processed, so the
\* batch is complete before the next episode GET is issued.
C11_BoundedPoolOneSeries ==
    /\ config.parallel_processing => Cardinality(InFlight) <= config.max_workers
    /\ InFlight # {} =>
          /\ pc = "process"
          /\ \A i \in InFlight : episodes[i].seriesId = series[idx].id
    /\ pc \notin {"process", "crashed"} =>
          \A i \in DOMAIN tasks : tasks[i] \in {"True", "False"}
    /\ \A e \in EpisodeIds :
          (e \in selected /\ outcome[e] = "none" /\ pc # "crashed")
              => ( pc = "process" /\ SeriesOf(e) = series[idx].id )

\* Two calls of one batch in flight at once in a pool of two workers, after the
\* batch of an earlier series was completed.
C11_Witness ==
    /\ pc = "process"
    /\ config.parallel_processing
    /\ config.max_workers = 2
    /\ Cardinality(InFlight) = 2
    /\ idx = 2
    /\ \E e \in EpisodesOf(series[1].id) : outcome[e] # "none"

\* C15: without dry_run the PUT that unmonitors an episode is issued before the
\* DELETE of its file, never after it; when the PUT succeeded and the DELETE
\* raised, process_episode reports False, the episode stays unmonitored with its
\* file present, and it is never monitored again.
C15_UnmonitorBeforeDelete ==
    \A e \in EpisodeIds :
        /\ delResp[e] # "none" => putResp[e] \in {"ok", "non2xx"}
        /\ putResp[e] # "none" => ~config.dry_run
        /\ (putResp[e] = "ok" /\ delResp[e] = "raise")
              => ( outcome[e] = "False" /\ ~monitored[e] /\ hasFile[e] )
        /\ putResp[e] = "ok" => ~monitored[e]

\* A finished run in which the PUT of an episode succeeded and its DELETE raised.
C15_Witness ==
    /\ pc = "done"
    /\ \E e \in EpisodeIds :
          /\ putResp[e] = "ok" /\ delResp[e] = "raise"
          /\ outcome[e] = "False" /\ ~monitored[e] /\ hasFile[e]

\* C16: the threshold is the start instant minus days_threshold days on the time
\* scale of the UTC air timestamps, so no episode aired less than days_threshold
\* days before the start of the run is selected, unmonitored or deleted,
\* whatever the host's UTC offset.
C16_CutoffOnUtcScale ==
    \A e \in EpisodeIds :
          (e \in selected \/ putResp[e] # "none" \/ delResp[e] # "none")
              => AirTime(e) < UtcNow - config.days_threshold * HoursPerDay

\* C17: the walk lists a directory after the directories below it, so after a
\* walk that met no error every directory left below media_root holds an entry;
\* media_root itself is never handed to os.rmdir.
C17_PostOrderCascade ==
    /\ ( pc \in {"summary", "done"} /\ Logged("prune")
         /\ ~config.dry_run /\ ~walkAborted )
          => \A d \in exists : HasEntries(d)
    /\ \A d \in Dirs :
          inspected[d] > 0 => \A c \in Dirs : ParentOf[c] = d => inspected[c] > 0
    /\ \A i \in DOMAIN WalkOrder : WalkOrder[i] # Root

\* A finished walk over a tree without files: the directory whose only entry was
\* an empty subdirectory is gone too.
C17_Witness ==
    /\ pc = "done"
    /\ ~walkAborted
    /\ files = {}
    /\ exists = {}
    /\ \A d \in Dirs : inspected[d] = 1

\* C18: when run() reaches the refresh with plex_enabled set, self.plex is a
\* PlexManager, so the refresh never faults on a missing instance.
C18_PlexInstanceAtRefresh ==
    /\ (pc = "refresh" /\ config.plex_enabled) => plex = "PlexManager"
    /\ fault # "AttributeError"

\* What process_episode reports for an episode, from the answers to its calls.
ExpectedOutcome(e) ==
    IF config.dry_run
       \/ (putResp[e] \in {"ok", "non2xx"} /\ delResp[e] \in {"ok", "non2xx"})
    THEN "True" ELSE "False"

\* C19: whichever the mode, each selected episode is processed exactly once (its
\* PUT, DELETE and outcome are set once and never again), the calls issued for it
\* and its outcome depend on the answers to its calls alone, and total_processed
\* at the end is the number of True outcomes: a parallel and a sequential run
\* over the same episodes and answers end alike.
C19_ModeIndependent ==
    /\ [][ \A e \in EpisodeIds :
              /\ putResp[e] # "none" => putResp'[e] = putResp[e]
              /\ delResp[e] # "none" => delResp'[e] = delResp[e]
              /\ outcome[e] # "none" => outcome'[e] = outcome[e] ]_vars
    /\ [] ( /\ \A e \in EpisodeIds :
                 /\ outcome[e] # "none" => (e \in selected /\ outcome[e] = ExpectedOutcome(e))
                 /\ putResp[e] # "none" => (e \in selected /\ ~config.dry_run)
                 /\ delResp[e] # "none" => putResp[e] \in {"ok", "non2xx"}
            /\ pc = "done" =>
                 /\ \A e \in selected :
                       /\ outcome[e] = ExpectedOutcome(e)
                       /\ ~config.dry_run => putResp[e] # "none"
                       /\ putResp[e] \in {"ok", "non2xx"} => delResp[e] # "none"
                 /\ total_processed
                       = Cardinality({ e \in selected : ExpectedOutcome(e) = "True" }) )

\* A finished sequential run over two series in which one call failed.
C19_Witness ==
    /\ pc = "done"
    /\ ~config.parallel_processing
    /\ Len(series) = 2
    /\ total_processed = 3
    /\ \E e \in selected : outcome[e] = "False"

\* C12: a configuration file with neither the sonarr nor the plex block ends the
\* process at load time: run() is never entered, no GET, PUT, DELETE or refresh
\* is issued, no directory is listed or removed.
C12_NoBackendIsFatal ==
    (~data.sonarr /\ ~data.plex) =>
        /\ pc \in {"load", "exited"}
        /\ config = NoConfig
        /\ seriesGet = "none"
        /\ \A s \in SeriesIds : episodeGet[s] = "none"
        /\ \A e \in EpisodeIds : putResp[e] = "none" /\ delResp[e] = "none"
        /\ refreshed = {}
        /\ exists = Dirs
        /\ \A d \in Dirs : inspected[d] = 0
        /\ phaseLog = << >>

\* A file with every other key in place and no backend block was rejected by
\* the backend test itself.
C12_Witness ==
    /\ pc = "exited"
    /\ fault = "ValueError:no backend"
    /\ ~data.sonarr /\ ~data.plex
    /\ data.cleanup.days_threshold # {} /\ data.cleanup.media_root
    /\ data.performance # {}

\* C14: a file with cleanup.days_threshold, cleanup.media_root and a backend
\* block loads, whichever optional keys and sections it omits, and the omitted
\* settings get delete_empty_dirs=true, parallel_processing=true, max_workers=4,
\* dry_run=false.
C14_LoadsWithDefaults ==
    ( /\ data.cleanup.days_threshold # {}
      /\ data.cleanup.media_root
      /\ data.sonarr \/ data.plex )
    => /\ pc # "exited"
       /\ pc # "load" =>
             /\ config.days_threshold \in data.cleanup.days_threshold
             /\ config.delete_empty_dirs \in
                   (IF data.cleanup.delete_empty_dirs = {}
                    THEN {TRUE} ELSE data.cleanup.delete_empty_dirs)
             /\ config.dry_run \in
                   (IF data.cleanup.dry_run = {}
                    THEN {FALSE} ELSE data.cleanup.dry_run)
             /\ config.parallel_processing \in
                   (IF data.performance = {} THEN {TRUE}
                    ELSE IF Performance(data).parallel_processing = {} THEN {TRUE}
                    ELSE Performance(data).parallel_processing)
             /\ config.max_workers \in
                   (IF data.performance = {} THEN {4}
                    ELSE IF Performance(data).max_workers = {} THEN {4}
                    ELSE Performance(data).max_workers)
             /\ config.sonarr_enabled = data.sonarr
             /\ config.plex_enabled = data.plex

\* C13: a dry run changes nothing upstream, reports True for every eligible
\* episode and counts exactly the eligible episodes; a second dry run that gets
\* the same answers to its GETs ends with the same eligible set, the same
\* per-episode outcomes and the same total_processed as the first.
C13_DryRunIdempotent ==
    config.dry_run =>
        /\ monitored = InitialMonitored
        /\ hasFile = InitialHasFile
        /\ \A e \in EpisodeIds : putResp[e] = "none" /\ delResp[e] = "none"
        /\ pc = "done" =>
              /\ \A e \in EpisodeIds :
                    outcome[e] = (IF e \in selected THEN "True" ELSE "none")
              /\ total_processed = Cardinality(selected)
        /\ ( /\ pc = "done" /\ runNo = 2
             /\ seriesGet = prev.seriesGet
             /\ episodeGet = prev.episodeGet )
              => /\ selected = prev.selected
                 /\ outcome = prev.outcome
                 /\ total_processed = prev.total_processed

\* The second of two dry runs over two daily series has ended like the first,
\* with every eligible episode reported.
C13_Witness ==
    /\ pc = "done" /\ runNo = 2 /\ config.dry_run
    /\ seriesGet = prev.seriesGet /\ episodeGet = prev.episodeGet
    /\ Cardinality(selected) = 4
    /\ total_processed = 4
    /\ prev.total_processed = 4

====
